---- MODULE Spec2Model ----
(***************************************************************************)
(* Capture session of gideon-ai: the screen capture producer and the frame *)
(* writer of ScreenCapture (legacy/record_photo.py), the deduplication     *)
(* worker and the start/stop sequence of GideonCapture (gideon/client.py), *)
(* the storage hand-off add_recordings (gideon/mechanisms/save.py) and the *)
(* ImageDeduplicator (legacy/dedup.py).                                    *)
(*                                                                         *)
(* Every thread is a process with a program counter; one action is one     *)
(* step between two points where another thread can interleave.            *)
(***************************************************************************)
EXTENDS Integers, Sequences, FiniteSets, TLC

(***************************************************************************)
(* Bounds.  The code's Queue(maxsize=30) is scaled down; the clock counts  *)
(* ticks of 1/TicksPerSecond second up to MaxTime.                         *)
(***************************************************************************)
maxsize == 1
TicksPerSecond == 20
MaxTime == 2
NumScreens == 2
\* the directory given to a deduplicator on its own: at most MaxImages
\* files, showing one of NumPictures pictures; thresholds up to MaxThreshold
MaxImages == 3
NumPictures == 3
MaxThreshold == 1

(***************************************************************************)
(* Program constants.                                                      *)
(***************************************************************************)
fps == 20
hash_size == 8
threshold == 10

\* one frame per clock value at most: the grabs are bounded by the clock
MaxFrames == MaxTime

\* frame_interval = 1.0 / fps, in ticks
frame_interval == TicksPerSecond \div fps

\* perf_counter() of the first loop iteration: the clock has run for at
\* least one frame interval, so the first interval test against
\* last_capture = 0 succeeds
BootTime == frame_interval

(***************************************************************************)
(* FrameSource: what sct.grab returns, already on the hasher's grid of     *)
(* hash_size rows by hash_size + 1 columns.  Screen s has 2s rows of       *)
(* rising intensity, the other rows are flat.                              *)
(***************************************************************************)
Screens == 0 .. (NumScreens - 1)

ScreenPixels(s) ==
    [r \in 1 .. hash_size |->
        [c \in 1 .. (hash_size + 1) |-> IF r <= 2 * s THEN c ELSE 0]]

\* width * height of the monitor: the same for every frame of a session
MonitorResolution == (hash_size + 1) * hash_size

NoFrame == [id |-> 0, ts |-> 0, px |-> 0]

\* what the histories keep of a frame: its number and its timestamp
FrameTag(f) == [id |-> f.id, ts |-> f.ts]

(***************************************************************************)
(* File names.  f"frame_{timestamp:.3f}.jpg" keeps the timestamp rounded   *)
(* to milliseconds: a name is represented by that number of milliseconds.  *)
(***************************************************************************)
FormatMillis(ts) == (2 * 1000 * ts + TicksPerSecond) \div (2 * TicksPerSecond)

\* float(path.split('/')[-1].split('_')[1].split('.')[0]): the digits before
\* the first '.', i.e. the whole seconds of the name
ParseTimestamp(name) == name \div 1000

(***************************************************************************)
(* ImageDeduplicator.                                                      *)
(***************************************************************************)
\* diff = pixels[:, 1:] > pixels[:, :-1], flattened row-major
calculate_dhash(pixels) ==
    [i \in 1 .. (hash_size * hash_size) |->
        LET r == ((i - 1) \div hash_size) + 1
            c == ((i - 1) % hash_size) + 1
        IN  IF pixels[r][c + 1] > pixels[r][c] THEN 1 ELSE 0]

Min(a, b) == IF a <= b THEN a ELSE b

\* mutant of hamming_distance: counts only the positions where hash1 has
\* the greater character
hamming_distance_one_sided(hash1, hash2) ==
    Cardinality({i \in 1 .. Min(Len(hash1), Len(hash2)) : hash1[i] > hash2[i]})

\* sum(c1 != c2 for c1, c2 in zip(hash1, hash2))
hamming_distance(hash1, hash2) ==
    Cardinality({i \in 1 .. Min(Len(hash1), Len(hash2)) : hash1[i] # hash2[i]})

\* get_image_resolution(path): every frame file has the monitor's size
get_image_resolution(path) == MonitorResolution

\* mutant of CollectGroup: the comparison with the threshold is strict
RECURSIVE CollectGroup_strict(_, _, _, _, _)
CollectGroup_strict(hashes, hash1, processed, T, i) ==
    IF i > Len(hashes) THEN << >>
    ELSE IF hashes[i][1] \notin processed
            /\ hamming_distance(hash1, hashes[i][2]) < T
         THEN <<hashes[i][1]>> \o
              CollectGroup_strict(hashes, hash1, processed, T, i + 1)
         ELSE CollectGroup_strict(hashes, hash1, processed, T, i + 1)

\* mutant of CollectGroup: an image is compared with the member admitted
\* last, not with the seed
RECURSIVE CollectGroup_chained(_, _, _, _, _)
CollectGroup_chained(hashes, hash1, processed, T, i) ==
    IF i > Len(hashes) THEN << >>
    ELSE IF hashes[i][1] \notin processed
            /\ hamming_distance(hash1, hashes[i][2]) <= T
         THEN <<hashes[i][1]>> \o
              CollectGroup_chained(hashes, hashes[i][2], processed, T, i + 1)
         ELSE CollectGroup_chained(hashes, hash1, processed, T, i + 1)

\* mutant of CollectGroup: the test against the threshold is missing
RECURSIVE CollectGroup_ignores_threshold(_, _, _, _, _)
CollectGroup_ignores_threshold(hashes, hash1, processed, T, i) ==
    IF i > Len(hashes) THEN << >>
    ELSE IF hashes[i][1] \notin processed
         THEN <<hashes[i][1]>> \o
              CollectGroup_ignores_threshold(hashes, hash1, processed, T, i + 1)
         ELSE CollectGroup_ignores_threshold(hashes, hash1, processed, T, i + 1)

\* The inner loop of group_similar_images for the seed hash1: the paths of
\* hashes (a sequence of <<path, hash>> in dict order) from position i on
\* that are not processed and within the threshold.
RECURSIVE CollectGroup(_, _, _, _, _)
CollectGroup(hashes, hash1, processed, T, i) ==
    IF i > Len(hashes) THEN << >>
    ELSE IF hashes[i][1] \notin processed
            /\ hamming_distance(hash1, hashes[i][2]) <= T
         THEN <<hashes[i][1]>> \o CollectGroup(hashes, hash1, processed, T, i + 1)
         ELSE CollectGroup(hashes, hash1, processed, T, i + 1)

SeqToSet(s) == {s[i] : i \in 1 .. Len(s)}

\* mutant of GroupFrom: processed.add(path2) is missing
RECURSIVE GroupFrom_forgets_processed(_, _, _, _)
GroupFrom_forgets_processed(hashes, processed, T, i) ==
    IF i > Len(hashes) THEN << >>
    ELSE LET current_group == CollectGroup(hashes, hashes[i][2], processed, T, 1)
         IN  IF current_group # << >>
             THEN <<current_group>> \o
                  GroupFrom_forgets_processed(hashes, processed, T, i + 1)
             ELSE GroupFrom_forgets_processed(hashes, processed, T, i + 1)

\* mutant of GroupFrom: the inner loop starts after the seed
RECURSIVE GroupFrom_after_seed(_, _, _, _)
GroupFrom_after_seed(hashes, processed, T, i) ==
    IF i > Len(hashes) THEN << >>
    ELSE IF hashes[i][1] \in processed
         THEN GroupFrom_after_seed(hashes, processed, T, i + 1)
         ELSE LET current_group ==
                      CollectGroup(hashes, hashes[i][2], processed, T, i + 1)
              IN  IF current_group # << >>
                  THEN <<current_group>> \o
                       GroupFrom_after_seed(hashes,
                           processed \cup SeqToSet(current_group), T, i + 1)
                  ELSE GroupFrom_after_seed(hashes, processed, T, i + 1)

\* The outer loop of group_similar_images from position i on.
RECURSIVE GroupFrom(_, _, _, _)
GroupFrom(hashes, processed, T, i) ==
    IF i > Len(hashes) THEN << >>
    ELSE IF hashes[i][1] \in processed
         THEN GroupFrom(hashes, processed, T, i + 1)
         ELSE LET current_group == CollectGroup(hashes, hashes[i][2], processed, T, 1)
              IN  IF current_group # << >>
                  THEN <<current_group>> \o
                       GroupFrom(hashes, processed \cup SeqToSet(current_group), T, i + 1)
                  ELSE GroupFrom(hashes, processed, T, i + 1)

\* mutant of group_similar_images: the outer loop skips the first item
group_similar_images_skips_first(hashes, T) == GroupFrom(hashes, {}, T, 2)

\* group_similar_images: processed = set(), then the loop over the items
group_similar_images(hashes, T) == GroupFrom(hashes, {}, T, 1)

\* mutant of MaxByKey: a later member with an equal key replaces the best
RECURSIVE MaxByKey_last(_, _, _, _)
MaxByKey_last(group, res, best, i) ==
    IF i > Len(group) THEN best
    ELSE IF res[group[i]] >= res[best]
         THEN MaxByKey_last(group, res, group[i], i + 1)
         ELSE MaxByKey_last(group, res, best, i + 1)

\* max(group, key=...): the first member with the greatest key; res maps
\* each path to its key
RECURSIVE MaxByKey(_, _, _, _)
MaxByKey(group, res, best, i) ==
    IF i > Len(group) THEN best
    ELSE IF res[group[i]] > res[best]
         THEN MaxByKey(group, res, group[i], i + 1)
         ELSE MaxByKey(group, res, best, i + 1)

\* mutant of RepresentativeChoices: 'first' takes group[-1]
RepresentativeChoices_last(group, method, res) ==
    IF method = "random" THEN SeqToSet(group)
    ELSE IF method = "highest_res" THEN {MaxByKey(group, res, group[1], 2)}
    ELSE {group[Len(group)]}

\* The candidates for the representative of one group.  random.choice may
\* return any member.
RepresentativeChoices(group, method, res) ==
    IF method = "random" THEN SeqToSet(group)
    ELSE IF method = "highest_res" THEN {MaxByKey(group, res, group[1], 2)}
    ELSE {group[1]}

\* mutant of select_representatives: the representative of a group is
\* taken from the members of all the groups
select_representatives_any_member(gs, method, res) ==
    LET Members == UNION {SeqToSet(gs[g]) : g \in 1 .. Len(gs)}
    IN  {{f[g] : g \in 1 .. Len(gs)} : f \in [1 .. Len(gs) -> Members]}

\* select_representatives: every set the loop over the groups can build
select_representatives(gs, method, res) ==
    LET Choice == {f \in [1 .. Len(gs) -> UNION {SeqToSet(gs[g]) : g \in 1 .. Len(gs)}] :
                     \A g \in 1 .. Len(gs) :
                        f[g] \in RepresentativeChoices(gs[g], method, res)}
    IN  {{f[g] : g \in 1 .. Len(gs)} : f \in Choice}

\* Path(directory).rglob('*'): the directory's entries in any order
DirectoryOrders(names) ==
    {o \in [1 .. Cardinality(names) -> names] :
        \A i, j \in 1 .. Cardinality(names) : i # j => o[i] # o[j]}

\* process_directory: for the entries in the order visited, the path and
\* the image read from it
process_directory(fs, order) ==
    [i \in 1 .. Len(order) |-> <<order[i], fs[order[i]]>>]

\* calculate_dhash of each screen
ScreenHash == [s \in Screens |-> calculate_dhash(ScreenPixels(s))]

\* the dict image_hashes that process_directory builds: <<path, hash>> in
\* insertion order
HashesOf(scanned) ==
    [i \in 1 .. Len(scanned) |-> <<scanned[i][1], ScreenHash[scanned[i][2]]>>]

(***************************************************************************)
(* Image files given to an ImageDeduplicator used on its own, as in the    *)
(* example at the end of dedup.py.  Picture k, on the hasher's grid, rises *)
(* over its first k cells (row by row) and is flat after them, so that two *)
(* pictures differ in as many hash bits as their numbers differ.  A file   *)
(* has a picture and a size in pixels, and is readable or not: Image.open  *)
(* raises on a file that is not readable.                                  *)
(***************************************************************************)
Pictures == 0 .. (NumPictures - 1)

Max(a, b) == IF a >= b THEN a ELSE b

PicturePixels(k) ==
    [r \in 1 .. hash_size |->
        [c \in 1 .. (hash_size + 1) |->
            Min(c - 1, Max(0, Min(hash_size, k - hash_size * (r - 1))))]]

\* the pictures of the five-image example: three near each other, and
\* others far from them and from each other
ExamplePictures == {0, 2, 5, 30, 55}

\* calculate_dhash of each picture
PictureHash ==
    [k \in Pictures \cup ExamplePictures |-> calculate_dhash(PicturePixels(k))]

\* width * height of the files
Resolutions == {100, 250, 400}

ImageFiles == [px : Pictures, res : Resolutions, readable : {TRUE}]

\* readable files of one size that show the pictures of the example
ExampleFiles ==
    {f \in [px : ExamplePictures, res : Resolutions, readable : {TRUE}] :
        \A g \in ImageFiles : f.res <= g.res}

\* files of one size, some of which Image.open cannot read
CorruptibleFiles ==
    {f \in [px : Pictures, res : Resolutions, readable : BOOLEAN] :
        \A g \in ImageFiles : f.res <= g.res}

\* The files a directory is drawn from.  Only select_representatives with
\* 'highest_res' calls get_image_resolution: for the other methods the
\* sizes are never read, and the files are drawn with one size.
FilesFor(m) ==
    IF m = "highest_res" THEN ImageFiles
    ELSE {f \in ImageFiles : \A g \in ImageFiles : f.res <= g.res}

\* the paths of a directory of n files
Paths(n) == 1 .. n

\* method of select_representatives
Methods == {"first", "random", "highest_res"}

\* ImageDeduplicator(threshold=...)
Thresholds == (0 - 1) .. MaxThreshold

\* mutant of ReadablePaths: a file that cannot be read is hashed as well
ReadablePaths_all(fs, order) == order

\* calculate_dhash returns None for a file Image.open cannot read, and
\* process_directory stores a hash only "if hash_value": the paths of order
\* that get a hash
RECURSIVE ReadablePaths(_, _)
ReadablePaths(fs, order) ==
    IF order = << >> THEN << >>
    ELSE IF fs[Head(order)].readable
         THEN <<Head(order)>> \o ReadablePaths(fs, Tail(order))
         ELSE ReadablePaths(fs, Tail(order))

\* get_image_resolution for the files of a directory, and 0 for a path
\* that Image.open does not find there
PixelCounts(fs) ==
    [path \in (DOMAIN fs) \cup Paths(MaxImages) |->
        IF path \in DOMAIN fs THEN fs[path].res ELSE 0]

\* the dict image_hashes built from files of pictures
PictureHashesOf(scanned) ==
    [i \in 1 .. Len(scanned) |->
        <<scanned[i][1], PictureHash[scanned[i][2].px]>>]

\* [len(group) for group in self.groups.values()]
GroupSizes(gs) == [g \in 1 .. Len(gs) |-> Len(gs[g])]

RECURSIVE SumSeq(_, _)
SumSeq(s, i) == IF i > Len(s) THEN 0 ELSE s[i] + SumSeq(s, i + 1)

RECURSIVE MaxSeq(_, _)
MaxSeq(s, i) == IF i > Len(s) THEN 0 ELSE Max(s[i], MaxSeq(s, i + 1))

\* mutant of SizeDistribution: += len(group) where the code has += 1
SizeDistribution_adds_members(sizes) ==
    [n \in SeqToSet(sizes) |->
        n * Cardinality({g \in 1 .. Len(sizes) : sizes[g] = n})]

\* size_distribution[len(group)] += 1 for each group
SizeDistribution(sizes) ==
    [n \in SeqToSet(sizes) |->
        Cardinality({g \in 1 .. Len(sizes) : sizes[g] = n})]

\* get_group_statistics; average_group_size is kept as the two numbers
\* the code divides
get_group_statistics(hashes, gs, reps) ==
    [total_images |-> Len(hashes),
     unique_groups |-> Len(gs),
     total_duplicates |-> Len(hashes) - Cardinality(reps),
     group_sizes |-> GroupSizes(gs),
     largest_group_size |-> IF Len(gs) > 0 THEN MaxSeq(GroupSizes(gs), 1) ELSE 0,
     average_group_size |-> IF Len(gs) > 0
                            THEN <<SumSeq(GroupSizes(gs), 1), Len(gs)>>
                            ELSE <<0, 1>>,
     size_distribution |-> SizeDistribution(GroupSizes(gs))]

(***************************************************************************)
(* State.                                                                  *)
(***************************************************************************)
VARIABLES
    now,              \* time.perf_counter(), in ticks
    start_time,       \* ScreenCapture.start_time
    stop_event,       \* ScreenCapture.stop_event
    frame_queue,      \* ScreenCapture.frame_queue, oldest frame first
    sct_open,         \* the mss handle is open
    capture_pc,       \* position of the capture thread (capture_screen)
    current_time,     \* capture_screen's local current_time
    last_capture,     \* capture_screen's local last_capture
    frame,            \* the frame capture_screen has grabbed
    save_pc,          \* position of the save thread (save_frames)
    save_frame,       \* the frame save_frames has dequeued
    files,            \* output folder: file name -> content (screen)
    main_pc,          \* position of the thread calling start() and stop()
    sigint_pc,        \* position of signal_handler, which runs on that thread
    gideon_stop_event,\* GideonCapture.stop_event
    client_open,      \* the vector DB client is open
    dedup_pc,         \* position of the deduplication thread
    image_hashes,     \* deduplicator.image_hashes in dict order, as <<path,
                      \* image>>: the hash of an entry is HashesOf's
    groups,           \* deduplicator.groups
    representatives,  \* deduplicator.representatives
    source,           \* add_recordings: the paths still to process
    batch,            \* objects added to the current batch
    failed_objects,   \* recordings.batch.failed_objects
    handoff,          \* hand-off of the current cycle: none, open, ok, failed
    cycle_error,      \* the current cycle reached logger.error
    grabs,            \* number of frames grabbed so far
    enqueued,         \* history: frames put on the queue, in order
    written,          \* history: frames written to disk, in order
    dropped,          \* history: frames dropped because the queue was full
    discarded,        \* history: frames taken off the queue by stop_capture
    directory,        \* a deduplicator on its own: path -> image file
    listing,          \* the order in which rglob yields the paths
    d_threshold,      \* its self.threshold
    method,           \* the method deduplicate is called with
    d_image_hashes,   \* its self.image_hashes, as <<path, image file>>
    d_groups,         \* its self.groups
    d_representatives,\* its self.representatives
    statistics,       \* the statistics deduplicate returned
    runs              \* number of deduplicate calls made

capture_vars == <<capture_pc, current_time, last_capture, frame, grabs>>
save_vars == <<save_pc, save_frame, written>>
dedup_vars == <<dedup_pc, image_hashes, groups, representatives, source, batch,
                failed_objects, handoff, cycle_error>>
main_vars == <<main_pc, sigint_pc, start_time, sct_open, gideon_stop_event,
               client_open, discarded>>

session_vars == <<now, start_time, stop_event, frame_queue, sct_open,
                  capture_pc, current_time, last_capture, frame, save_pc,
                  save_frame, files, main_pc, sigint_pc, gideon_stop_event,
                  client_open,
                  dedup_pc, image_hashes, groups, representatives, source,
                  batch, failed_objects, handoff, cycle_error, grabs,
                  enqueued, written, dropped, discarded>>

deduplicator_vars == <<directory, listing, d_threshold, method,
                       d_image_hashes, d_groups, d_representatives,
                       statistics, runs>>

vars == <<session_vars, deduplicator_vars>>

\* State after GideonCapture.__init__ (which runs ScreenCapture.__init__)
\* on an output folder that holds the files folder: os.makedirs(...,
\* exist_ok=True) takes the folder as it is.
NewSession(folder) ==
    /\ now = BootTime
    /\ start_time = 0
    /\ stop_event = FALSE
    /\ frame_queue = << >>
    /\ sct_open = TRUE
    /\ capture_pc = "unstarted"
    /\ current_time = 0
    /\ last_capture = 0
    /\ frame = NoFrame
    /\ save_pc = "unstarted"
    /\ save_frame = NoFrame
    /\ files = folder
    /\ main_pc = "idle"
    /\ sigint_pc = "none"
    /\ gideon_stop_event = FALSE
    /\ client_open = TRUE
    /\ dedup_pc = "unstarted"
    /\ image_hashes = << >>
    /\ groups = << >>
    /\ representatives = {}
    /\ source = {}
    /\ batch = {}
    /\ failed_objects = {}
    /\ handoff = "none"
    /\ cycle_error = FALSE
    /\ grabs = 0
    /\ enqueued = << >>
    /\ written = << >>
    /\ dropped = {}
    /\ discarded = {}

\* a session on a new output folder
SessionInit == NewSession(<< >>)

\* the statistics of a deduplicator that has not run
NoStatistics == get_group_statistics(<< >>, << >>, {})

\* State after ImageDeduplicator.__init__: no hashes, groups or
\* representatives
NewDeduplicator ==
    /\ d_image_hashes = << >>
    /\ d_groups = << >>
    /\ d_representatives = {}
    /\ statistics = NoStatistics
    /\ runs = 0

\* The session: its deduplicator is the one of GideonCapture, and no
\* other is in use.
Init ==
    /\ SessionInit
    /\ NewDeduplicator
    /\ directory = << >>
    /\ listing = << >>
    /\ d_threshold = threshold
    /\ method = "highest_res"

\* The clock advances at any time.
Tick ==
    /\ now < MaxTime
    /\ now' = now + 1
    /\ UNCHANGED <<start_time, stop_event, frame_queue, files, enqueued,
          dropped>>
    /\ UNCHANGED <<capture_vars, save_vars, dedup_vars, main_vars>>
    /\ UNCHANGED deduplicator_vars

(***************************************************************************)
(* Queue: full(), empty(), put and get of queue.Queue(maxsize).            *)
(***************************************************************************)
\* mutant of QueueCapacity: the queue is built one slot too large
QueueCapacity_off_by_one == maxsize + 1

\* Queue(maxsize=...): the capacity the queue is built with; a capacity
\* of 0 or less means no limit
QueueCapacity == maxsize

\* mutant of full: the test uses < where Queue.full uses <=
full_off_by_one(q) == 0 < QueueCapacity /\ QueueCapacity < Len(q)

\* Queue.full(): 0 < maxsize <= qsize()
full(q) == 0 < QueueCapacity /\ QueueCapacity <= Len(q)
\* Queue.empty()
empty(q) == Len(q) = 0
\* Queue.put waits while maxsize > 0 and qsize() >= maxsize
put_ready(q) == QueueCapacity <= 0 \/ Len(q) < QueueCapacity
\* get removes the oldest item
QueueHead(q) == Head(q)
QueueRest(q) == Tail(q)

(***************************************************************************)
(* capture_screen, the capture thread.                                     *)
(***************************************************************************)
\* mutant of interval_elapsed: the producer grabs on every pass of the loop
interval_elapsed_always(t, last) == TRUE

\* if current_time - last_capture >= self.frame_interval
interval_elapsed(t, last) == t - last >= frame_interval

\* mutant of CaptureLoop: "while True", the flag is not read
CaptureLoop_ignores_stop ==
    /\ capture_pc = "loop"
    /\ current_time' = now
    /\ capture_pc' = IF interval_elapsed(now, last_capture)
                     THEN "grab" ELSE "sleep"
    /\ UNCHANGED <<now, last_capture, frame, grabs, stop_event, frame_queue,
          files, enqueued, dropped>>
    /\ UNCHANGED <<save_vars, dedup_vars, main_vars>>
    /\ UNCHANGED deduplicator_vars

\* while not stop_event.is_set(): current_time = perf_counter(); interval test
CaptureLoop ==
    /\ capture_pc = "loop"
    /\ IF stop_event
       THEN /\ capture_pc' = "done"
            /\ UNCHANGED current_time
       ELSE /\ current_time' = now
            /\ capture_pc' = IF interval_elapsed(now, last_capture)
                             THEN "grab" ELSE "sleep"
    /\ UNCHANGED <<now, last_capture, frame, grabs, stop_event, frame_queue,
          files, enqueued, dropped>>
    /\ UNCHANGED <<save_vars, dedup_vars, main_vars>>
    /\ UNCHANGED deduplicator_vars

\* mutant of rel_timestamp: the operands swapped
rel_timestamp_reversed(t, t0) == t0 - t

\* rel_timestamp = time.perf_counter() - self.start_time
rel_timestamp(t, t0) == t - t0

\* sct.grab, np.array, rel_timestamp = perf_counter() - start_time
CaptureGrab ==
    /\ capture_pc = "grab"
    /\ grabs < MaxFrames
    /\ \E px \in Screens :
          frame' = [id |-> grabs + 1, ts |-> rel_timestamp(now, start_time),
                    px |-> px]
    /\ grabs' = grabs + 1
    /\ capture_pc' = "check_full"
    /\ UNCHANGED <<now, current_time, last_capture, stop_event, frame_queue,
          files, enqueued, dropped>>
    /\ UNCHANGED <<save_vars, dedup_vars, main_vars>>
    /\ UNCHANGED deduplicator_vars

\* mutant of CaptureHandlerOutcome: the handler is around the loop, not in it
CaptureHandlerOutcome_terminates == "done"

\* "except Exception as e: print(...); continue" of capture_screen: where
\* the thread goes after an exception
CaptureHandlerOutcome == "loop"

\* the grab raises: except Exception: print, continue
CaptureGrabFails ==
    /\ capture_pc = "grab"
    /\ capture_pc' = CaptureHandlerOutcome
    /\ UNCHANGED <<now, current_time, last_capture, frame, grabs, stop_event,
          frame_queue, files, enqueued, dropped>>
    /\ UNCHANGED <<save_vars, dedup_vars, main_vars>>
    /\ UNCHANGED deduplicator_vars

\* if not frame_queue.full(): ... else the frame is not enqueued;
\* last_capture = current_time
CaptureCheckFull ==
    /\ capture_pc = "check_full"
    /\ IF ~full(frame_queue)
       THEN /\ capture_pc' = "put"
            /\ UNCHANGED <<last_capture, frame, dropped>>
       ELSE /\ dropped' = dropped \cup {FrameTag(frame)}
            /\ last_capture' = current_time
            /\ frame' = NoFrame
            /\ capture_pc' = "loop"
    /\ UNCHANGED <<now, current_time, grabs, stop_event, frame_queue, files,
          enqueued>>
    /\ UNCHANGED <<save_vars, dedup_vars, main_vars>>
    /\ UNCHANGED deduplicator_vars

\* frame_queue.put((frame, rel_timestamp)) blocks while the queue is full;
\* last_capture = current_time
CapturePut ==
    /\ capture_pc = "put"
    /\ put_ready(frame_queue)
    /\ frame_queue' = Append(frame_queue, frame)
    /\ enqueued' = Append(enqueued, FrameTag(frame))
    /\ last_capture' = current_time
    /\ frame' = NoFrame
    /\ capture_pc' = "loop"
    /\ UNCHANGED <<now, current_time, grabs, stop_event, files, dropped>>
    /\ UNCHANGED <<save_vars, dedup_vars, main_vars>>
    /\ UNCHANGED deduplicator_vars

\* time.sleep(max(0, (frame_interval - (current_time - last_capture)) / 2))
CaptureSleep ==
    /\ capture_pc = "sleep"
    /\ capture_pc' = "loop"
    /\ UNCHANGED <<now, current_time, last_capture, frame, grabs, stop_event,
          frame_queue, files, enqueued, dropped>>
    /\ UNCHANGED <<save_vars, dedup_vars, main_vars>>
    /\ UNCHANGED deduplicator_vars

capture_screen ==
    \/ CaptureLoop
    \/ CaptureGrab
    \/ CaptureGrabFails
    \/ CaptureCheckFull
    \/ CapturePut
    \/ CaptureSleep

(***************************************************************************)
(* save_frames, the save thread.                                           *)
(***************************************************************************)
\* while not (stop_event.is_set() and frame_queue.empty())
SaveLoop ==
    /\ save_pc = "loop"
    /\ save_pc' = IF stop_event /\ empty(frame_queue) THEN "done" ELSE "get"
    /\ UNCHANGED <<now, save_frame, written, stop_event, frame_queue, files,
          enqueued, dropped>>
    /\ UNCHANGED <<capture_vars, dedup_vars, main_vars>>
    /\ UNCHANGED deduplicator_vars

\* frame, timestamp = frame_queue.get(timeout=1), an item is there in time
SaveGet ==
    /\ save_pc = "get"
    /\ ~empty(frame_queue)
    /\ save_frame' = QueueHead(frame_queue)
    /\ frame_queue' = QueueRest(frame_queue)
    /\ save_pc' = "write"
    /\ UNCHANGED <<now, written, stop_event, files, enqueued, dropped>>
    /\ UNCHANGED <<capture_vars, dedup_vars, main_vars>>
    /\ UNCHANGED deduplicator_vars

\* The handler list of save_frames starts with "except Queue.Empty", and
\* Queue is the class queue.Queue, which has no attribute Empty: matching
\* any exception raised in the try block raises AttributeError out of
\* save_frames, and the thread ends.
SaveHandlerOutcome == "crashed"

\* mutant of SaveGetTimeout: get() without a timeout keeps waiting
SaveGetTimeout_waits ==
    /\ save_pc = "get"
    /\ empty(frame_queue)
    /\ UNCHANGED vars

\* get(timeout=1) times out on an empty queue and raises queue.Empty
SaveGetTimeout ==
    /\ save_pc = "get"
    /\ empty(frame_queue)
    /\ save_pc' = SaveHandlerOutcome
    /\ UNCHANGED <<now, save_frame, written, stop_event, frame_queue, files,
          enqueued, dropped>>
    /\ UNCHANGED <<capture_vars, dedup_vars, main_vars>>
    /\ UNCHANGED deduplicator_vars

WriteFile(fs, name, px) ==
    [n \in (DOMAIN fs) \cup {name} |-> IF n = name THEN px ELSE fs[n]]

\* filename = f"frame_{timestamp:.3f}.jpg"; cv2.imwrite(filepath, ...)
SaveWrite ==
    /\ save_pc = "write"
    /\ files' = WriteFile(files, FormatMillis(save_frame.ts), save_frame.px)
    /\ written' = Append(written, FrameTag(save_frame))
    /\ save_frame' = NoFrame
    /\ save_pc' = "loop"
    /\ UNCHANGED <<now, stop_event, frame_queue, enqueued, dropped>>
    /\ UNCHANGED <<capture_vars, dedup_vars, main_vars>>
    /\ UNCHANGED deduplicator_vars

\* cvtColor or imwrite raises
SaveWriteFails ==
    /\ save_pc = "write"
    /\ save_frame' = NoFrame
    /\ save_pc' = SaveHandlerOutcome
    /\ UNCHANGED <<now, written, stop_event, frame_queue, files, enqueued,
          dropped>>
    /\ UNCHANGED <<capture_vars, dedup_vars, main_vars>>
    /\ UNCHANGED deduplicator_vars

save_frames ==
    \/ SaveLoop
    \/ SaveGet
    \/ SaveGetTimeout
    \/ SaveWrite
    \/ SaveWriteFails

SaveTerminated == save_pc \in {"done", "crashed"}

(***************************************************************************)
(* The thread that calls GideonCapture.start() and GideonCapture.stop().   *)
(***************************************************************************)
CaptureTerminated == capture_pc = "done"

\* signal_handler is running: it runs on the calling thread, which goes on
\* when the handler has returned
HandlerRunning == sigint_pc \notin {"none", "returned"}
DedupTerminated == dedup_pc = "done"

\* start_capture: start_time = perf_counter(); capture_thread.start()
StartCaptureThread ==
    /\ main_pc = "idle"
    /\ ~HandlerRunning
    /\ start_time' = now
    /\ capture_pc' = "loop"
    /\ main_pc' = "start_save"
    /\ UNCHANGED <<now, stop_event, frame_queue, sct_open, current_time,
          last_capture, frame, grabs, files, gideon_stop_event, client_open,
          enqueued, dropped, discarded>>
    /\ UNCHANGED <<save_vars, dedup_vars>>
    /\ UNCHANGED <<sigint_pc, deduplicator_vars>>

\* start_capture: save_thread.start()
StartSaveThread ==
    /\ main_pc = "start_save"
    /\ ~HandlerRunning
    /\ save_pc' = "loop"
    /\ main_pc' = "start_dedup"
    /\ UNCHANGED <<now, start_time, stop_event, frame_queue, sct_open,
          save_frame, written, files, gideon_stop_event, client_open,
          enqueued, dropped, discarded>>
    /\ UNCHANGED <<capture_vars, dedup_vars>>
    /\ UNCHANGED <<sigint_pc, deduplicator_vars>>

\* start: dedup_thread.start()
StartDedupThread ==
    /\ main_pc = "start_dedup"
    /\ ~HandlerRunning
    /\ dedup_pc' = "loop"
    /\ main_pc' = "running"
    /\ UNCHANGED <<now, start_time, stop_event, frame_queue, sct_open, files,
          gideon_stop_event, client_open, image_hashes, groups,
          representatives, source, batch, failed_objects, handoff,
          cycle_error, enqueued, dropped, discarded>>
    /\ UNCHANGED <<capture_vars, save_vars>>
    /\ UNCHANGED <<sigint_pc, deduplicator_vars>>

\* stop -> stop_capture: if not self.stop_event.is_set(): print(...)
StopCaptureTest ==
    /\ main_pc = "running"
    /\ ~HandlerRunning
    /\ main_pc' = IF ~stop_event THEN "stop_set" ELSE "gideon_set"
    /\ UNCHANGED <<now, start_time, stop_event, frame_queue, sct_open, files,
          gideon_stop_event, client_open, enqueued, dropped, discarded>>
    /\ UNCHANGED <<capture_vars, save_vars, dedup_vars>>
    /\ UNCHANGED <<sigint_pc, deduplicator_vars>>

\* self.stop_event.set()
StopCaptureSet ==
    /\ main_pc = "stop_set"
    /\ ~HandlerRunning
    /\ stop_event' = TRUE
    /\ main_pc' = "join_capture"
    /\ UNCHANGED <<now, start_time, frame_queue, sct_open, files,
          gideon_stop_event, client_open, enqueued, dropped, discarded>>
    /\ UNCHANGED <<capture_vars, save_vars, dedup_vars>>
    /\ UNCHANGED <<sigint_pc, deduplicator_vars>>

\* if capture_thread.is_alive(): capture_thread.join()
JoinCapture ==
    /\ main_pc = "join_capture"
    /\ ~HandlerRunning
    /\ CaptureTerminated
    /\ main_pc' = "check_save"
    /\ UNCHANGED <<now, start_time, stop_event, frame_queue, sct_open, files,
          gideon_stop_event, client_open, enqueued, dropped, discarded>>
    /\ UNCHANGED <<capture_vars, save_vars, dedup_vars>>
    /\ UNCHANGED <<sigint_pc, deduplicator_vars>>

\* if self.save_thread and self.save_thread.is_alive():
CheckSaveAlive ==
    /\ main_pc = "check_save"
    /\ ~HandlerRunning
    /\ main_pc' = IF ~SaveTerminated THEN "drain" ELSE "close_sct"
    /\ UNCHANGED <<now, start_time, stop_event, frame_queue, sct_open, files,
          gideon_stop_event, client_open, enqueued, dropped, discarded>>
    /\ UNCHANGED <<capture_vars, save_vars, dedup_vars>>
    /\ UNCHANGED <<sigint_pc, deduplicator_vars>>

\* while not self.frame_queue.empty():
DrainTest ==
    /\ main_pc = "drain"
    /\ ~HandlerRunning
    /\ main_pc' = IF ~empty(frame_queue) THEN "drain_get" ELSE "join_save"
    /\ UNCHANGED <<now, start_time, stop_event, frame_queue, sct_open, files,
          gideon_stop_event, client_open, enqueued, dropped, discarded>>
    /\ UNCHANGED <<capture_vars, save_vars, dedup_vars>>
    /\ UNCHANGED <<sigint_pc, deduplicator_vars>>

\* self.frame_queue.get(): no timeout, blocks while the queue is empty;
\* the item is not used
DrainGet ==
    /\ main_pc = "drain_get"
    /\ ~HandlerRunning
    /\ ~empty(frame_queue)
    /\ discarded' = discarded \cup {FrameTag(QueueHead(frame_queue))}
    /\ frame_queue' = QueueRest(frame_queue)
    /\ main_pc' = "drain"
    /\ UNCHANGED <<now, start_time, stop_event, sct_open, files,
          gideon_stop_event, client_open, enqueued, dropped>>
    /\ UNCHANGED <<capture_vars, save_vars, dedup_vars>>
    /\ UNCHANGED <<sigint_pc, deduplicator_vars>>

\* self.save_thread.join()
JoinSave ==
    /\ main_pc = "join_save"
    /\ ~HandlerRunning
    /\ SaveTerminated
    /\ main_pc' = "close_sct"
    /\ UNCHANGED <<now, start_time, stop_event, frame_queue, sct_open, files,
          gideon_stop_event, client_open, enqueued, dropped, discarded>>
    /\ UNCHANGED <<capture_vars, save_vars, dedup_vars>>
    /\ UNCHANGED <<sigint_pc, deduplicator_vars>>

\* self.sct.close(); stop_capture returns
CloseSct ==
    /\ main_pc = "close_sct"
    /\ ~HandlerRunning
    /\ sct_open' = FALSE
    /\ main_pc' = "gideon_set"
    /\ UNCHANGED <<now, start_time, stop_event, frame_queue, files,
          gideon_stop_event, client_open, enqueued, dropped, discarded>>
    /\ UNCHANGED <<capture_vars, save_vars, dedup_vars>>
    /\ UNCHANGED <<sigint_pc, deduplicator_vars>>

\* stop: self.stop_event.set()
GideonStopSet ==
    /\ main_pc = "gideon_set"
    /\ ~HandlerRunning
    /\ gideon_stop_event' = TRUE
    /\ main_pc' = "join_dedup"
    /\ UNCHANGED <<now, start_time, stop_event, frame_queue, sct_open, files,
          client_open, enqueued, dropped, discarded>>
    /\ UNCHANGED <<capture_vars, save_vars, dedup_vars>>
    /\ UNCHANGED <<sigint_pc, deduplicator_vars>>

\* mutant of JoinDedup: stop does not wait for the deduplication thread
JoinDedup_no_wait ==
    /\ main_pc = "join_dedup"
    /\ ~HandlerRunning
    /\ main_pc' = "close_client"
    /\ UNCHANGED <<now, start_time, stop_event, frame_queue, sct_open, files,
          gideon_stop_event, client_open, enqueued, dropped, discarded>>
    /\ UNCHANGED <<capture_vars, save_vars, dedup_vars>>
    /\ UNCHANGED <<sigint_pc, deduplicator_vars>>

\* if dedup_thread.is_alive(): dedup_thread.join()
JoinDedup ==
    /\ main_pc = "join_dedup"
    /\ ~HandlerRunning
    /\ DedupTerminated
    /\ main_pc' = "close_client"
    /\ UNCHANGED <<now, start_time, stop_event, frame_queue, sct_open, files,
          gideon_stop_event, client_open, enqueued, dropped, discarded>>
    /\ UNCHANGED <<capture_vars, save_vars, dedup_vars>>
    /\ UNCHANGED <<sigint_pc, deduplicator_vars>>

\* self.vector_client.close()
CloseClient ==
    /\ main_pc = "close_client"
    /\ ~HandlerRunning
    /\ client_open' = FALSE
    /\ main_pc' = "rmtree"
    /\ UNCHANGED <<now, start_time, stop_event, frame_queue, sct_open, files,
          gideon_stop_event, enqueued, dropped, discarded>>
    /\ UNCHANGED <<capture_vars, save_vars, dedup_vars>>
    /\ UNCHANGED <<sigint_pc, deduplicator_vars>>

\* shutil.rmtree(self.output_folder); stop returns
RemoveOutputFolder ==
    /\ main_pc = "rmtree"
    /\ ~HandlerRunning
    /\ files' = << >>
    /\ main_pc' = "stopped"
    /\ UNCHANGED <<now, start_time, stop_event, frame_queue, sct_open,
          gideon_stop_event, client_open, enqueued, dropped, discarded>>
    /\ UNCHANGED <<capture_vars, save_vars, dedup_vars>>
    /\ UNCHANGED <<sigint_pc, deduplicator_vars>>

start ==
    \/ StartCaptureThread
    \/ StartSaveThread
    \/ StartDedupThread

stop_capture ==
    \/ StopCaptureTest
    \/ StopCaptureSet
    \/ JoinCapture
    \/ CheckSaveAlive
    \/ DrainTest
    \/ DrainGet
    \/ JoinSave
    \/ CloseSct

stop ==
    \/ stop_capture
    \/ GideonStopSet
    \/ JoinDedup
    \/ CloseClient
    \/ RemoveOutputFolder

\* Idle -> Running -> Stopping -> Stopped, read off the calling thread
SessionState ==
    IF main_pc \in {"idle", "start_save", "start_dedup"} THEN "Idle"
    ELSE IF main_pc = "running" THEN "Running"
    ELSE IF main_pc = "stopped" THEN "Stopped"
    ELSE "Stopping"

(***************************************************************************)
(* _dedup_and_update_db, the deduplication thread, with add_recordings.    *)
(***************************************************************************)
dedup_data == <<image_hashes, groups, representatives, source, batch,
                failed_objects, handoff, cycle_error>>

\* mutant of DedupLoop: "while True", the flag is not read
DedupLoop_ignores_stop ==
    /\ dedup_pc = "loop"
    /\ dedup_pc' = "sleep"
    /\ UNCHANGED <<now, stop_event, frame_queue, files, enqueued, dropped>>
    /\ UNCHANGED <<dedup_data, capture_vars, save_vars, main_vars>>
    /\ UNCHANGED deduplicator_vars

\* while not self.stop_event.is_set():
DedupLoop ==
    /\ dedup_pc = "loop"
    /\ dedup_pc' = IF gideon_stop_event THEN "done" ELSE "sleep"
    /\ UNCHANGED <<now, stop_event, frame_queue, files, enqueued, dropped>>
    /\ UNCHANGED <<dedup_data, capture_vars, save_vars, main_vars>>
    /\ UNCHANGED deduplicator_vars

\* time.sleep(self.dedup_interval)
DedupSleep ==
    /\ dedup_pc = "sleep"
    /\ dedup_pc' = "deduplicate"
    /\ UNCHANGED <<now, stop_event, frame_queue, files, image_hashes, groups,
          representatives, source, batch, failed_objects, handoff,
          cycle_error, enqueued, dropped>>
    /\ UNCHANGED <<capture_vars, save_vars, main_vars>>
    /\ UNCHANGED deduplicator_vars

\* representatives, _ = deduplicator.deduplicate(output_folder, 'highest_res');
\* if representatives: add_recordings(...) opens the batch
DedupDeduplicate ==
    /\ dedup_pc = "deduplicate"
    /\ cycle_error' = FALSE
    /\ \E order \in DirectoryOrders(DOMAIN files) :
         LET scanned == process_directory(files, order)
             gs == group_similar_images(HashesOf(scanned), threshold)
         IN  /\ image_hashes' = scanned
             /\ groups' = gs
             /\ \E reps \in select_representatives(gs, "highest_res",
                    [path \in DOMAIN files |-> get_image_resolution(path)]) :
                  /\ representatives' = reps
                  /\ IF reps # {}
                     THEN /\ source' = reps
                          /\ batch' = {}
                          /\ handoff' = "open"
                          /\ dedup_pc' = "add_recordings"
                     ELSE /\ source' = {}
                          /\ handoff' = "none"
                          /\ dedup_pc' = "loop"
                          /\ UNCHANGED batch
    /\ UNCHANGED <<now, stop_event, frame_queue, files, failed_objects,
          enqueued, dropped>>
    /\ UNCHANGED <<capture_vars, save_vars, main_vars>>
    /\ UNCHANGED deduplicator_vars

\* the object add_recordings builds for a path
RecordingObject(path) == [name |-> path, timestamp |-> ParseTimestamp(path)]

\* add_recordings, one iteration: toBase64(path); batch.add_object(...);
\* os.remove(path)
AddObject ==
    /\ dedup_pc = "add_recordings"
    /\ \E path \in source :
         /\ path \in DOMAIN files
         /\ batch' = batch \cup {RecordingObject(path)}
         /\ files' = [n \in (DOMAIN files) \ {path} |-> files[n]]
         /\ source' = source \ {path}
    /\ UNCHANGED <<now, stop_event, frame_queue, dedup_pc, image_hashes,
          groups, representatives, failed_objects, handoff, cycle_error,
          enqueued, dropped>>
    /\ UNCHANGED <<capture_vars, save_vars, main_vars>>
    /\ UNCHANGED deduplicator_vars

\* mutant of DedupHandlerOutcome: the handler is around the loop, not in it
DedupHandlerOutcome_terminates == "done"

\* "except Exception as e: logger.error(...); continue" of
\* _dedup_and_update_db: where the thread goes after an exception
DedupHandlerOutcome == "loop"

\* add_recordings raises inside the batch (reading the file or the batch
\* raises); the exception reaches the handler of _dedup_and_update_db
AddObjectFails ==
    /\ dedup_pc = "add_recordings"
    /\ source # {}
    /\ handoff' = "failed"
    /\ cycle_error' = TRUE
    /\ source' = {}
    /\ batch' = {}
    /\ dedup_pc' = DedupHandlerOutcome
    /\ UNCHANGED <<now, stop_event, frame_queue, files, image_hashes, groups,
          representatives, failed_objects, enqueued, dropped>>
    /\ UNCHANGED <<capture_vars, save_vars, main_vars>>
    /\ UNCHANGED deduplicator_vars

\* deduplicate raises on its first read of the directory, after
\* process_directory has cleared image_hashes; the exception reaches the
\* handler of _dedup_and_update_db
DedupDeduplicateFails ==
    /\ dedup_pc = "deduplicate"
    /\ image_hashes' = << >>
    /\ handoff' = "none"
    /\ cycle_error' = TRUE
    /\ dedup_pc' = DedupHandlerOutcome
    /\ UNCHANGED <<now, stop_event, frame_queue, files, groups,
          representatives, source, batch, failed_objects, enqueued,
          dropped>>
    /\ UNCHANGED <<capture_vars, save_vars, main_vars>>
    /\ UNCHANGED deduplicator_vars

\* the batch context exits: the objects are sent, the ones the collection
\* rejects are in failed_objects; add_recordings logs them and returns
BatchExit ==
    /\ dedup_pc = "add_recordings"
    /\ source = {}
    /\ \E failed \in SUBSET batch :
         /\ failed_objects' = failed
         /\ handoff' = IF failed = {} THEN "ok" ELSE "failed"
    /\ batch' = {}
    /\ dedup_pc' = "cleanup"
    /\ UNCHANGED <<now, stop_event, frame_queue, files, image_hashes, groups,
          representatives, source, cycle_error, enqueued, dropped>>
    /\ UNCHANGED <<capture_vars, save_vars, main_vars>>
    /\ UNCHANGED deduplicator_vars

\* for file in os.listdir(output_folder): if isfile and endswith('.jpg'):
\* os.remove(file_path) -- every entry of the folder is a frame file
Cleanup ==
    /\ dedup_pc = "cleanup"
    /\ files' = << >>
    /\ dedup_pc' = "loop"
    /\ UNCHANGED <<now, stop_event, frame_queue, enqueued, dropped>>
    /\ UNCHANGED <<dedup_data, capture_vars, save_vars, main_vars>>
    /\ UNCHANGED deduplicator_vars

\* os.remove raises in the cleanup loop after some of the files were
\* removed; the exception reaches the handler of _dedup_and_update_db
CleanupFails ==
    /\ dedup_pc = "cleanup"
    /\ DOMAIN files # {}
    /\ \E removed \in (SUBSET DOMAIN files) \ {DOMAIN files} :
         files' = [n \in (DOMAIN files) \ removed |-> files[n]]
    /\ cycle_error' = TRUE
    /\ dedup_pc' = DedupHandlerOutcome
    /\ UNCHANGED <<now, stop_event, frame_queue, image_hashes, groups,
          representatives, source, batch, failed_objects, handoff,
          enqueued, dropped>>
    /\ UNCHANGED <<capture_vars, save_vars, main_vars>>
    /\ UNCHANGED deduplicator_vars

dedup_and_update_db ==
    \/ DedupLoop
    \/ DedupSleep
    \/ DedupDeduplicate
    \/ DedupDeduplicateFails
    \/ AddObject
    \/ AddObjectFails
    \/ BatchExit
    \/ Cleanup
    \/ CleanupFails

(***************************************************************************)
(* Specification.                                                          *)
(***************************************************************************)
Next ==
    \/ Tick
    \/ capture_screen
    \/ save_frames
    \/ start
    \/ stop
    \/ dedup_and_update_db

Spec == Init /\ [][Next]_vars

(***************************************************************************)
(* The capture side under fair scheduling: the capture thread and the save *)
(* thread each take a step whenever they can, while the deduplication      *)
(* worker, once started, stays in its sleep (dedup_interval is seconds     *)
(* long).  The calling thread runs start() and then stop_capture().        *)
(***************************************************************************)
CaptureNext ==
    \/ Tick
    \/ capture_screen
    \/ save_frames
    \/ start
    \/ stop_capture

CaptureFairSpec ==
    /\ Init
    /\ [][CaptureNext]_vars
    /\ WF_vars(capture_screen)
    /\ WF_vars(save_frames)

(***************************************************************************)
(* signal_handler, which ScreenCapture.__init__ registers for SIGINT.  It  *)
(* runs on the calling thread, between two of its steps, and calls         *)
(* stop_capture; the calling thread goes on when the handler has returned. *)
(* One SIGINT is delivered at most.                                        *)
(***************************************************************************)
\* SIGINT arrives: print("Stopping capture..."); self.stop_capture()
SigintDeliver ==
    /\ sigint_pc = "none"
    /\ main_pc # "stopped"
    /\ sigint_pc' = "test"
    /\ UNCHANGED <<now, main_pc, start_time, files, gideon_stop_event,
          client_open, enqueued, dropped,
          stop_event, frame_queue, sct_open, discarded>>
    /\ UNCHANGED <<capture_vars, save_vars, dedup_vars>>
    /\ UNCHANGED deduplicator_vars

\* if not self.stop_event.is_set(): print(...)
SigintTest ==
    /\ sigint_pc = "test"
    /\ sigint_pc' = IF ~stop_event THEN "stop_set" ELSE "returned"
    /\ UNCHANGED <<now, main_pc, start_time, files, gideon_stop_event,
          client_open, enqueued, dropped,
          stop_event, frame_queue, sct_open, discarded>>
    /\ UNCHANGED <<capture_vars, save_vars, dedup_vars>>
    /\ UNCHANGED deduplicator_vars

\* self.stop_event.set()
SigintSet ==
    /\ sigint_pc = "stop_set"
    /\ stop_event' = TRUE
    /\ sigint_pc' = "join_capture"
    /\ UNCHANGED <<now, main_pc, start_time, files, gideon_stop_event,
          client_open, enqueued, dropped,
          frame_queue, sct_open, discarded>>
    /\ UNCHANGED <<capture_vars, save_vars, dedup_vars>>
    /\ UNCHANGED deduplicator_vars

\* if self.capture_thread and self.capture_thread.is_alive(): join()
SigintJoinCapture ==
    /\ sigint_pc = "join_capture"
    /\ capture_pc \in {"unstarted", "done"}
    /\ sigint_pc' = "check_save"
    /\ UNCHANGED <<now, main_pc, start_time, files, gideon_stop_event,
          client_open, enqueued, dropped,
          stop_event, frame_queue, sct_open, discarded>>
    /\ UNCHANGED <<capture_vars, save_vars, dedup_vars>>
    /\ UNCHANGED deduplicator_vars

\* if self.save_thread and self.save_thread.is_alive():
SigintCheckSave ==
    /\ sigint_pc = "check_save"
    /\ sigint_pc' = IF save_pc # "unstarted" /\ ~SaveTerminated
                    THEN "drain" ELSE "close_sct"
    /\ UNCHANGED <<now, main_pc, start_time, files, gideon_stop_event,
          client_open, enqueued, dropped,
          stop_event, frame_queue, sct_open, discarded>>
    /\ UNCHANGED <<capture_vars, save_vars, dedup_vars>>
    /\ UNCHANGED deduplicator_vars

\* while not self.frame_queue.empty():
SigintDrainTest ==
    /\ sigint_pc = "drain"
    /\ sigint_pc' = IF ~empty(frame_queue) THEN "drain_get" ELSE "join_save"
    /\ UNCHANGED <<now, main_pc, start_time, files, gideon_stop_event,
          client_open, enqueued, dropped,
          stop_event, frame_queue, sct_open, discarded>>
    /\ UNCHANGED <<capture_vars, save_vars, dedup_vars>>
    /\ UNCHANGED deduplicator_vars

\* self.frame_queue.get(): no timeout, blocks while the queue is empty
SigintDrainGet ==
    /\ sigint_pc = "drain_get"
    /\ ~empty(frame_queue)
    /\ discarded' = discarded \cup {FrameTag(QueueHead(frame_queue))}
    /\ frame_queue' = QueueRest(frame_queue)
    /\ sigint_pc' = "drain"
    /\ UNCHANGED <<now, main_pc, start_time, files, gideon_stop_event,
          client_open, enqueued, dropped,
          stop_event, sct_open>>
    /\ UNCHANGED <<capture_vars, save_vars, dedup_vars>>
    /\ UNCHANGED deduplicator_vars

\* self.save_thread.join()
SigintJoinSave ==
    /\ sigint_pc = "join_save"
    /\ SaveTerminated
    /\ sigint_pc' = "close_sct"
    /\ UNCHANGED <<now, main_pc, start_time, files, gideon_stop_event,
          client_open, enqueued, dropped,
          stop_event, frame_queue, sct_open, discarded>>
    /\ UNCHANGED <<capture_vars, save_vars, dedup_vars>>
    /\ UNCHANGED deduplicator_vars

\* self.sct.close(); stop_capture and the handler return
SigintCloseSct ==
    /\ sigint_pc = "close_sct"
    /\ sct_open' = FALSE
    /\ sigint_pc' = "returned"
    /\ UNCHANGED <<now, main_pc, start_time, files, gideon_stop_event,
          client_open, enqueued, dropped,
          stop_event, frame_queue, discarded>>
    /\ UNCHANGED <<capture_vars, save_vars, dedup_vars>>
    /\ UNCHANGED deduplicator_vars

signal_handler ==
    \/ SigintDeliver
    \/ SigintTest
    \/ SigintSet
    \/ SigintJoinCapture
    \/ SigintCheckSave
    \/ SigintDrainTest
    \/ SigintDrainGet
    \/ SigintJoinSave
    \/ SigintCloseSct

(***************************************************************************)
(* main() of record_photo.py: a ScreenCapture on its own.  start_capture,  *)
(* time.sleep(5), stop_capture, and stop_capture again in the finally      *)
(* clause.  The position start_dedup is the return of start_capture, and   *)
(* gideon_set the return of stop_capture.                                  *)
(***************************************************************************)
\* time.sleep(5)
MainSleep ==
    /\ main_pc = "start_dedup"
    /\ ~HandlerRunning
    /\ main_pc' = "running"
    /\ UNCHANGED <<now, sigint_pc, start_time, stop_event, frame_queue,
          sct_open, files, gideon_stop_event, client_open, enqueued, dropped,
          discarded>>
    /\ UNCHANGED <<capture_vars, save_vars, dedup_vars>>
    /\ UNCHANGED deduplicator_vars

\* finally: capture.stop_capture() -- if not self.stop_event.is_set():
MainFinally ==
    /\ main_pc = "gideon_set"
    /\ ~HandlerRunning
    /\ main_pc' = IF ~stop_event THEN "stop_set" ELSE "stopped"
    /\ UNCHANGED <<now, sigint_pc, start_time, stop_event, frame_queue,
          sct_open, files, gideon_stop_event, client_open, enqueued, dropped,
          discarded>>
    /\ UNCHANGED <<capture_vars, save_vars, dedup_vars>>
    /\ UNCHANGED deduplicator_vars

MainNext ==
    \/ Tick
    \/ capture_screen
    \/ save_frames
    \/ StartCaptureThread
    \/ StartSaveThread
    \/ MainSleep
    \/ stop_capture
    \/ MainFinally
    \/ signal_handler

MainSpec == Init /\ [][MainNext]_vars

(***************************************************************************)
(* A session shorter than a frame interval (the clock does not advance),   *)
(* with a deduplication worker that takes a step whenever it can: its      *)
(* sleeps and its calls return.                                            *)
(***************************************************************************)
LeftoverFolders ==
    {<< >>, [name \in {FormatMillis(TicksPerSecond)} |-> 0]}

\* the output folder is new, or holds a frame file of an earlier session
ShortSessionInit ==
    /\ \E folder \in LeftoverFolders : NewSession(folder)
    /\ NewDeduplicator
    /\ directory = << >>
    /\ listing = << >>
    /\ d_threshold = threshold
    /\ method = "highest_res"

ShortSessionNext ==
    \/ capture_screen
    \/ save_frames
    \/ start
    \/ stop
    \/ dedup_and_update_db

\* The worker's steps but the deduplicate call that returns.  The worker
\* can take one of them exactly when it can take any step (the call can
\* raise whenever it can return), and it cannot take the other twice
\* without one of them in between: to be fair to these is to be fair to
\* the worker.
DedupScheduled ==
    \/ DedupLoop
    \/ DedupSleep
    \/ DedupDeduplicateFails
    \/ AddObject
    \/ AddObjectFails
    \/ BatchExit
    \/ Cleanup
    \/ CleanupFails

DedupFairSpec ==
    /\ ShortSessionInit
    /\ [][ShortSessionNext]_vars
    /\ WF_vars(DedupScheduled)

(***************************************************************************)
(* An ImageDeduplicator on its own: deduplicate is called on a directory   *)
(* of image files, and then again on the directory that holds exactly the  *)
(* representatives the first call returned.                                *)
(***************************************************************************)
\* The paths are numbered in the order rglob yields them the first time.
DeduplicatorInit ==
    /\ SessionInit
    /\ NewDeduplicator
    /\ \E n \in 0 .. MaxImages :
         /\ \E m \in Methods :
              /\ method = m
              /\ directory \in [Paths(n) -> FilesFor(m)]
         /\ listing = [i \in 1 .. n |-> i]
    /\ d_threshold \in Thresholds

\* mutant of image_hashes_clear: the dict keeps the entries of the call before
image_hashes_kept(held) == held

\* self.image_hashes.clear() at the start of process_directory
image_hashes_clear(held) == << >>

\* self.image_hashes[str(path)] = hash_value for each image scanned, on the
\* dict as it is: a path it holds keeps its place and gets the new value, a
\* new path goes to the end
StoreHashes(held, scanned) ==
    LET heldPaths == {held[i][1] : i \in 1 .. Len(held)}
        Rescanned(path) == {i \in 1 .. Len(scanned) : scanned[i][1] = path}
        kept == [i \in 1 .. Len(held) |->
                    IF Rescanned(held[i][1]) # {}
                    THEN scanned[CHOOSE j \in Rescanned(held[i][1]) : TRUE]
                    ELSE held[i]]
    IN  kept \o SelectSeq(scanned, LAMBDA e : e[1] \notin heldPaths)

\* deduplicate(directory_path, method): process_directory,
\* group_similar_images, select_representatives, get_group_statistics
deduplicate(fs, order) ==
    LET scanned == StoreHashes(image_hashes_clear(d_image_hashes),
                               process_directory(fs, ReadablePaths(fs, order)))
        gs == group_similar_images(PictureHashesOf(scanned), d_threshold)
    IN  /\ d_image_hashes' = scanned
        /\ d_groups' = gs
        /\ \E reps \in select_representatives(gs, method, PixelCounts(fs)) :
             /\ d_representatives' = reps
             /\ statistics' = get_group_statistics(scanned, gs, reps)

\* the first call, on the directory as given
DeduplicateDirectory ==
    /\ runs = 0
    /\ deduplicate(directory, listing)
    /\ runs' = 1
    /\ UNCHANGED <<directory, listing, d_threshold, method>>
    /\ UNCHANGED session_vars

\* the second call, on the representatives of the first, listed in any order
DeduplicateRepresentatives ==
    /\ runs = 1
    /\ directory' = [path \in d_representatives |-> directory[path]]
    /\ listing' \in DirectoryOrders(d_representatives)
    /\ deduplicate(directory', listing')
    /\ runs' = 2
    /\ UNCHANGED <<d_threshold, method>>
    /\ UNCHANGED session_vars

DeduplicatorNext ==
    \/ DeduplicateDirectory
    \/ DeduplicateRepresentatives

DeduplicatorSpec == DeduplicatorInit /\ [][DeduplicatorNext]_vars

\* The same deduplicator on a directory in which some files cannot be read.
CorruptFilesInit ==
    /\ SessionInit
    /\ NewDeduplicator
    /\ \E n \in 0 .. MaxImages :
         /\ directory \in [Paths(n) -> CorruptibleFiles]
         /\ listing = [i \in 1 .. n |-> i]
    /\ d_threshold \in Thresholds
    /\ method \in Methods

CorruptFilesSpec == CorruptFilesInit /\ [][DeduplicatorNext]_vars

\* The five-image example: ImageDeduplicator(threshold=10) on a directory
\* of five files of the example's pictures, in every order.
ExampleInit ==
    /\ SessionInit
    /\ NewDeduplicator
    /\ directory \in [Paths(5) -> ExampleFiles]
    /\ listing = [i \in 1 .. 5 |-> i]
    /\ d_threshold = threshold
    /\ method \in Methods

ExampleSpec == ExampleInit /\ [][DeduplicatorNext]_vars

(***************************************************************************)
(* Properties.                                                             *)
(***************************************************************************)
\* C1: in every reachable state the number of frames in the frame queue is
\* between 0 and the configured capacity.
C1_QueueWithinCapacity ==
    /\ Len(frame_queue) >= 0
    /\ Len(frame_queue) <= maxsize

\* the queue is at capacity while the producer holds one more grabbed frame
C1_Witness ==
    /\ Len(frame_queue) = maxsize
    /\ capture_pc = "check_full"
    /\ frame # NoFrame

\* C2: a frame grabbed while the queue is full is dropped and the producer
\* goes to its next iteration; whenever the producer is at put(), the put
\* does not block.
C2_DropNeverBlock ==
    [][/\ (capture_pc' = "put" => put_ready(frame_queue'))
       /\ (capture_pc = "check_full" /\ full(frame_queue)
             /\ capture_pc' # "check_full")
            => /\ capture_pc' = "loop"
               /\ frame_queue' = frame_queue
               /\ enqueued' = enqueued
               /\ FrameTag(frame) \in dropped']_vars

\* a frame was dropped on a full queue, and the producer has gone on
C2_Witness ==
    /\ dropped # {}
    /\ capture_pc = "loop"
    /\ Len(frame_queue) = maxsize

\* C3: every enqueued frame reaches the Frame Writer: only the writer
\* removes frames from the queue, and no frame is left in the queue once
\* the writer has terminated.  Stated for the writer that has not been
\* ended by an exception.
C3_EnqueuedFramesReachWriter ==
    save_pc # "crashed" =>
        /\ discarded = {}
        /\ SaveTerminated => empty(frame_queue)

\* C4: the Frame Writer terminates only in a state where cancellation has
\* been signaled and the queue is empty.
C4_WriterEndsOnlyWhenDrained ==
    [][(~SaveTerminated /\ SaveTerminated')
         => (stop_event /\ empty(frame_queue))]_vars

\* C5: after a stop request the session reaches Stopped: the stopping
\* thread is never left blocked.  As a safety property: the stopping thread
\* is never inside frame_queue.get() on an empty queue when the capture
\* thread, the only one that puts frames, has terminated.
C5_StoppingThreadNeverBlocked ==
    (main_pc = "drain_get" /\ empty(frame_queue)) => ~CaptureTerminated

\* a step of the deduplication cycle that removes files
DedupRemoves ==
    /\ dedup_pc \in {"add_recordings", "cleanup"}
    /\ ~((DOMAIN files) \subseteq (DOMAIN files'))

\* C6: a deduplication cycle deletes a file only after the storage
\* collaborator has confirmed the whole batch of that cycle.
C6_DeleteOnlyAfterConfirmedHandoff ==
    [][DedupRemoves => handoff = "ok"]_vars

\* the paths the current cycle scanned, and the ones it put in a group
ScannedPaths == {image_hashes[i][1] : i \in 1 .. Len(image_hashes)}
GroupedPaths == UNION {SeqToSet(groups[g]) : g \in 1 .. Len(groups)}

\* C7: when the hand-off of a cycle has failed, every file the cycle
\* scanned is still in the frame directory.
C7_FailedHandoffKeepsFiles ==
    (handoff = "failed" /\ ~DedupTerminated)
        => ScannedPaths \subseteq DOMAIN files

\* C8: a deduplication cycle removes only files that were in its scan and
\* in one of its groups.
C8_RemovesOnlyScannedFiles ==
    [][DedupRemoves
         => ((DOMAIN files) \ (DOMAIN files')) \subseteq
                (ScannedPaths \cap GroupedPaths)]_vars

\* C9: a failure inside a deduplication cycle leaves the worker at the
\* head of its loop and the session state as it was; the worker ends only
\* when cancellation is set, and otherwise goes on to the next interval.
C9_FailureKeepsWorkerRunning ==
    [][/\ (~cycle_error /\ cycle_error')
            => (dedup_pc' = "loop" /\ SessionState' = SessionState)
       /\ (~DedupTerminated /\ DedupTerminated') => gideon_stop_event
       /\ (dedup_pc = "loop" /\ dedup_pc' # "loop" /\ ~gideon_stop_event)
            => dedup_pc' = "sleep"]_vars

\* a cycle has failed and the worker runs the next one
C9_Witness ==
    /\ cycle_error
    /\ dedup_pc = "deduplicate"
    /\ ~gideon_stop_event

C22_AtMostRateTimesDuration ==
    (SessionState \in {"Stopping", "Stopped"} /\ now > start_time)
        => Len(written) * TicksPerSecond <= fps * (now - start_time)

\* C24: once cancellation is set, the Frame Writer eventually terminates
\* under fair scheduling, also when the queue is and stays empty.
C24_WriterTerminatesAfterCancel ==
    stop_event ~> SaveTerminated

\* cancellation is set, the queue is empty and the writer has left its
\* loop through the exit test
C24_Witness ==
    /\ stop_event
    /\ empty(frame_queue)
    /\ save_pc = "done"

\* C25: an encode or write failure for a dequeued frame does not stop the
\* Frame Writer: the writer leaves the write at the head of its loop.
C25_WriteFailureKeepsWriterRunning ==
    [][(save_pc = "write" /\ save_pc' # "write")
         => (save_pc' = "loop" /\ ~SaveTerminated')]_vars

\* C26: a grab failure is never fatal: the step that handles it leaves the
\* producer at the head of its loop with nothing enqueued and its interval
\* bookkeeping untouched, and the producer ends only when cancellation is
\* set.
C26_GrabFailureNeverFatal ==
    [][/\ (capture_pc = "grab" /\ capture_pc' # "grab" /\ grabs' = grabs)
            => /\ capture_pc' = "loop"
               /\ frame_queue' = frame_queue
               /\ enqueued' = enqueued
               /\ last_capture' = last_capture
       /\ (~CaptureTerminated /\ CaptureTerminated') => stop_event]_vars

\* the first grab has failed (the producer has read the clock and holds
\* no frame) and the producer is back at the head of its loop
C26_Witness ==
    /\ capture_pc = "loop"
    /\ current_time > 0
    /\ grabs = 0
    /\ enqueued = << >>
    /\ ~stop_event

\* C27: the storage handle is closed and the working directory removed
\* only after the Capture Producer, the Frame Writer and the deduplication
\* worker have terminated.
C27_ReleaseAfterAllTerminated ==
    (~client_open \/ main_pc \in {"rmtree", "stopped"})
        => /\ CaptureTerminated
           /\ SaveTerminated
           /\ DedupTerminated

\* the session is stopped after frames were written and handed off
C27_Witness ==
    /\ main_pc = "stopped"
    /\ ~client_open
    /\ written # << >>
    /\ handoff = "ok"

\* C28: cancellation is one shared flag: whenever the flag of the Capture
\* Producer and the Frame Writer is set, the flag of the deduplication
\* worker is set.
C28_OneCancellationFlag ==
    stop_event => gideon_stop_event

(***************************************************************************)
(* Properties of the ImageDeduplicator.                                    *)
(***************************************************************************)
\* hamming_distance between the hashes of any two pictures
PictureDistance ==
    [a \in DOMAIN PictureHash |->
        [b \in DOMAIN PictureHash |->
            hamming_distance(PictureHash[a], PictureHash[b])]]

\* hamming_distance between the hashes of the i-th and the j-th scanned image
ScannedDistance(i, j) ==
    PictureDistance[d_image_hashes[i][2].px][d_image_hashes[j][2].px]

\* C11: after group_similar_images every image belongs to at most one
\* group: the groups are pairwise disjoint and no image occurs twice inside
\* a group.
C11_GroupsDisjoint ==
    /\ \A g, h \in 1 .. Len(d_groups) :
         g # h => SeqToSet(d_groups[g]) \cap SeqToSet(d_groups[h]) = {}
    /\ \A g \in 1 .. Len(d_groups) :
         \A i, j \in 1 .. Len(d_groups[g]) :
            i # j => d_groups[g][i] # d_groups[g][j]

\* two groups, the first with two members
C11_Witness ==
    /\ runs = 1
    /\ Len(d_groups) = 2
    /\ Len(d_groups[1]) = 2

\* C12: after deduplicate with any method every group is non-empty, the
\* number of representatives is the number of groups, and every group
\* holds exactly one representative.
C12_OneRepresentativePerGroup ==
    runs >= 1 =>
        /\ \A g \in 1 .. Len(d_groups) : Len(d_groups[g]) >= 1
        /\ Cardinality(d_representatives) = Len(d_groups)
        /\ \A g \in 1 .. Len(d_groups) :
             Cardinality(SeqToSet(d_groups[g]) \cap d_representatives) = 1

\* random chose a member that is not the first of its group, and there is
\* another group
C12_Witness ==
    /\ runs = 1
    /\ method = "random"
    /\ Len(d_groups) = 2
    /\ \E g \in 1 .. Len(d_groups) :
         /\ Len(d_groups[g]) = 2
         /\ d_groups[g][2] \in d_representatives

\* C13: deduplicate called again on exactly the representatives of a
\* previous call yields one singleton group per image, the same
\* representatives and no duplicates removed, for every threshold >= 0 and
\* every method.
C13_Idempotent ==
    (runs = 2 /\ d_threshold >= 0) =>
        /\ Len(d_groups) = Len(d_image_hashes)
        /\ \A g \in 1 .. Len(d_groups) : Len(d_groups[g]) = 1
        /\ d_representatives = DOMAIN directory
        /\ statistics.total_duplicates = 0

\* C14: for N images whose hashes are pairwise further apart than the
\* threshold T >= 0, deduplicate yields N singleton groups, N
\* representatives and no duplicates removed.
C14_DistinctImagesStaySingle ==
    LET hashes == PictureHashesOf(d_image_hashes)
        N == Len(hashes)
    IN  (/\ runs >= 1
         /\ d_threshold >= 0
         /\ \A i, j \in 1 .. N : i # j => ScannedDistance(i, j) > d_threshold)
        => /\ Len(d_groups) = N
           /\ \A g \in 1 .. Len(d_groups) : Len(d_groups[g]) = 1
           /\ Cardinality(d_representatives) = N
           /\ statistics.total_duplicates = 0

\* three images of three pictures, none within the threshold of another
C14_Witness ==
    /\ runs = 1
    /\ d_threshold >= 0
    /\ Len(d_image_hashes) = 3
    /\ Len(d_groups) = 3

\* C15: for N >= 1 images with identical hashes and a threshold T >= 0,
\* deduplicate yields one group of N members, one representative and
\* N - 1 duplicates removed.
C15_IdenticalImagesOneGroup ==
    LET hashes == PictureHashesOf(d_image_hashes)
        N == Len(hashes)
    IN  (/\ runs >= 1
         /\ d_threshold >= 0
         /\ N >= 1
         /\ \A i, j \in 1 .. N : hashes[i][2] = hashes[j][2])
        => /\ Len(d_groups) = 1
           /\ Len(d_groups[1]) = N
           /\ Cardinality(d_representatives) = 1
           /\ statistics.total_duplicates = N - 1

\* three files of the same picture, in one group
C15_Witness ==
    /\ runs = 1
    /\ d_threshold >= 0
    /\ Len(d_image_hashes) = 3
    /\ \A i \in 1 .. Len(d_image_hashes) :
         d_image_hashes[i][2].px = d_image_hashes[1][2].px
    /\ Len(d_groups) = 1

\* C16: with highest_res the representative of a group has the greatest
\* pixel count of the group and is the earliest member with it; in a group
\* with the pixel counts 100, 400 and 250 it is the member with 400.
C16_HighestResolutionFirstOfTies ==
    (runs >= 1 /\ method = "highest_res") =>
        \A g \in 1 .. Len(d_groups) :
            LET group == d_groups[g]
            IN  \E k \in 1 .. Len(group) :
                   /\ group[k] \in d_representatives
                   /\ \A j \in 1 .. Len(group) :
                        /\ directory[group[j]].res <= directory[group[k]].res
                        /\ j < k => directory[group[j]].res
                                       < directory[group[k]].res
                   /\ {directory[group[j]].res : j \in 1 .. Len(group)}
                         = {100, 400, 250}
                      => directory[group[k]].res = 400

\* a group with the pixel counts 100, 400, 250 in this order, the second
\* member chosen
C16_Witness ==
    /\ runs = 1
    /\ method = "highest_res"
    /\ Len(d_groups) = 1
    /\ Len(d_groups[1]) = 3
    /\ directory[d_groups[1][1]].res = 100
    /\ directory[d_groups[1][2]].res = 400
    /\ directory[d_groups[1][3]].res = 250
    /\ d_representatives = {d_groups[1][2]}

\* C17: the statistics deduplicate returns: total_images is the number of
\* hashed images, unique_groups the number of groups, total_duplicates is
\* total_images minus the number of representatives, and size_distribution
\* maps each group size to the number of groups of that size.
C17_StatisticsCount ==
    runs >= 1 =>
        /\ statistics.total_images = Len(d_image_hashes)
        /\ statistics.unique_groups = Len(d_groups)
        /\ statistics.total_duplicates
              = statistics.total_images - Cardinality(d_representatives)
        /\ DOMAIN statistics.size_distribution
              = {Len(d_groups[g]) : g \in 1 .. Len(d_groups)}
        /\ \A n \in DOMAIN statistics.size_distribution :
              statistics.size_distribution[n]
                 = Cardinality({g \in 1 .. Len(d_groups) : Len(d_groups[g]) = n})

\* one group of two and one group of one
C17_Witness ==
    /\ runs = 1
    /\ Len(d_groups) = 2
    /\ DOMAIN statistics.size_distribution = {1, 2}
    /\ statistics.total_duplicates = 1

\* C18: for the hashes of any two scanned images, which have the same
\* length, hamming_distance is the number of positions where they differ,
\* it is symmetric, and it lies between 0 and the hash bit-length.
C18_HammingSymmetricBounded ==
    LET scanned == {d_image_hashes[i][2].px : i \in 1 .. Len(d_image_hashes)}
    IN  \A a, b \in scanned :
           LET h1 == PictureHash[a]
               h2 == PictureHash[b]
               d == PictureDistance[a][b]
           IN  /\ Len(h1) = hash_size * hash_size
               /\ Len(h2) = Len(h1)
               /\ a <= b => d = Cardinality({p \in 1 .. Len(h1) : h1[p] # h2[p]})
               /\ d = PictureDistance[b][a]
               /\ d >= 0
               /\ d <= Len(h1)

\* two scanned images whose hashes differ
C18_Witness ==
    /\ runs = 1
    /\ \E i, j \in 1 .. Len(d_image_hashes) : ScannedDistance(i, j) > 0

\* C19: two images with the same pixel content get the same hash, their
\* hamming distance is 0, and for a threshold T >= 0 they are in the same
\* group.
C19_SameContentSameGroup ==
    LET hashes == PictureHashesOf(d_image_hashes)
    IN  \A i, j \in 1 .. Len(d_image_hashes) :
           d_image_hashes[i][2].px = d_image_hashes[j][2].px
              => /\ hashes[i][2] = hashes[j][2]
                 /\ ScannedDistance(i, j) = 0
                 /\ d_threshold >= 0
                    => \E g \in 1 .. Len(d_groups) :
                          {hashes[i][1], hashes[j][1]}
                             \subseteq SeqToSet(d_groups[g])

\* the first and the third image show the same picture, the second one
\* another: the first group is made of the first and the third
C19_Witness ==
    /\ runs = 1
    /\ d_threshold >= 0
    /\ Len(d_image_hashes) = 3
    /\ d_image_hashes[1][2].px = d_image_hashes[3][2].px
    /\ d_image_hashes[1][2].px # d_image_hashes[2][2].px
    /\ Len(d_groups) = 2
    /\ d_groups[1] = <<d_image_hashes[1][1], d_image_hashes[3][1]>>

\* C20: the timestamp the storage hand-off extracts from a frame's file
\* name equals the frame's session-relative timestamp to the millisecond.
C20_TimestampRoundTrip ==
    \A o \in batch :
        \E i \in 1 .. Len(written) :
            /\ FormatMillis(written[i].ts) = o.name
            /\ 1000 * o.timestamp = FormatMillis(written[i].ts)

\* C21: an image whose hash computation fails is in no group, is no
\* representative and is not counted in total_images, and the other images
\* are grouped as they are without it.
C21_UnreadableImageExcluded ==
    runs >= 1 =>
        LET unreadable == {path \in DOMAIN directory : ~directory[path].readable}
            others == SelectSeq(listing, LAMBDA path : directory[path].readable)
        IN  /\ \A path \in unreadable :
                 /\ \A g \in 1 .. Len(d_groups) : path \notin SeqToSet(d_groups[g])
                 /\ path \notin d_representatives
                 /\ \A i \in 1 .. Len(d_image_hashes) : d_image_hashes[i][1] # path
            /\ statistics.total_images
                  = Cardinality(DOMAIN directory) - Cardinality(unreadable)
            /\ d_groups = group_similar_images(
                   PictureHashesOf(process_directory(directory, others)),
                   d_threshold)

\* an unreadable file between two readable files of the same picture,
\* which are grouped together
C21_Witness ==
    /\ runs = 1
    /\ DOMAIN directory = {1, 2, 3}
    /\ ~directory[2].readable
    /\ d_groups = <<<<1, 3>>>>

\* C23: for 5 images of which 3 are pairwise within distance 5 and the
\* other 2 are further than 20 from each other and from each of the 3,
\* deduplicate with threshold 10 yields 3 groups, one of 3 members and two
\* of 1, and 2 duplicates removed, in every input order.
C23_FiveImageExample ==
    LET hashes == PictureHashesOf(d_image_hashes)
        N == Len(hashes)
        dist(i, j) == ScannedDistance(i, j)
    IN  (/\ runs = 1
         /\ d_threshold = 10
         /\ N = 5
         /\ \E near \in SUBSET (1 .. N) :
              /\ Cardinality(near) = 3
              /\ \A i, j \in near : dist(i, j) <= 5
              /\ \A i \in (1 .. N) \ near :
                   \A j \in (1 .. N) \ {i} : dist(i, j) > 20)
        => /\ Len(d_groups) = 3
           /\ Cardinality({g \in 1 .. 3 : Len(d_groups[g]) = 3}) = 1
           /\ Cardinality({g \in 1 .. 3 : Len(d_groups[g]) = 1}) = 2
           /\ statistics.total_duplicates = 2

\* the three near images are second, fourth and fifth, between and after
\* the two far ones
C23_Witness ==
    /\ runs = 1
    /\ d_threshold = 10
    /\ directory[1].px = 30
    /\ directory[2].px = 0
    /\ directory[3].px = 55
    /\ directory[4].px = 5
    /\ directory[5].px = 2
    /\ d_groups = <<<<1>>, <<2, 4, 5>>, <<3>>>>

\* C29: grouping is seed-based greedy in input order, for T >= 0: the first
\* member of a group is the earliest image not in an earlier group, every
\* member is within T of that seed, and every image not in an earlier group
\* and within T of the seed is a member.
C29_SeedBasedGreedy ==
    LET hashes == PictureHashesOf(d_image_hashes)
        N == Len(hashes)
        Earlier(g) == UNION {SeqToSet(d_groups[h]) : h \in 1 .. (g - 1)}
    IN  (runs >= 1 /\ d_threshold >= 0) =>
            \A g \in 1 .. Len(d_groups) :
               \E k \in 1 .. N :
                  /\ hashes[k][1] = d_groups[g][1]
                  /\ \A i \in 1 .. (k - 1) : hashes[i][1] \in Earlier(g)
                  /\ \A i \in 1 .. N :
                       hashes[i][1] \in SeqToSet(d_groups[g])
                          <=> /\ hashes[i][1] \notin Earlier(g)
                              /\ ScannedDistance(k, i) <= d_threshold

\* a group whose second and third member are both within the threshold of
\* the seed and further than the threshold from each other
C29_Witness ==
    /\ runs = 1
    /\ d_threshold >= 0
    /\ Len(d_groups) = 1
    /\ Len(d_groups[1]) = 3
    /\ PictureDistance[directory[d_groups[1][2]].px]
                      [directory[d_groups[1][3]].px] > d_threshold

\* C30: with the method first and T >= 0 the representative of every group
\* is its seed, the first image admitted, which is the group's earliest
\* member in input order.
C30_FirstIsSeed ==
    (runs >= 1 /\ method = "first" /\ d_threshold >= 0) =>
        \A g \in 1 .. Len(d_groups) :
            /\ d_groups[g][1] \in d_representatives
            /\ \A k, i \in 1 .. Len(d_image_hashes) :
                 (/\ d_image_hashes[k][1] = d_groups[g][1]
                  /\ d_image_hashes[i][1] \in SeqToSet(d_groups[g]))
                 => k <= i

\* two groups under the method first, the first with two members
C30_Witness ==
    /\ runs = 1
    /\ method = "first"
    /\ d_threshold >= 0
    /\ Len(d_groups) = 2
    /\ Len(d_groups[1]) = 2
    /\ d_representatives = {d_groups[1][1], d_groups[2][1]}
\* C31: the hash of a scanned image has hash_size * hash_size bits, taken
\* row-major from a grid of hash_size rows by hash_size + 1 columns, and
\* bit (r, c) is 1 exactly when pixel (r, c) is strictly greater than its
\* right neighbour (r, c + 1).
C31_BitSetWhenGreaterThanRight ==
    \A i \in 1 .. Len(d_image_hashes) :
        LET pixels == PicturePixels(d_image_hashes[i][2].px)
            hash == PictureHash[d_image_hashes[i][2].px]
        IN  /\ Len(hash) = hash_size * hash_size
            /\ \A r, c \in 1 .. hash_size :
                  hash[(r - 1) * hash_size + c]
                     = IF pixels[r][c] > pixels[r][c + 1] THEN 1 ELSE 0

\* C34: what a deduplicate call leaves depends only on the images scanned
\* in that call: the hashes are those of the directory as it is now, and
\* an image that is no longer there is in no group, is no representative
\* and is not counted.
C34_CycleDependsOnlyOnScan ==
    runs >= 1 =>
        LET scanned == process_directory(directory,
                                         ReadablePaths(directory, listing))
            present == DOMAIN directory
        IN  /\ d_image_hashes = scanned
            /\ \A g \in 1 .. Len(d_groups) : SeqToSet(d_groups[g]) \subseteq present
            /\ d_representatives \subseteq present
            /\ statistics.total_images = Len(scanned)
            /\ SumSeq(statistics.group_sizes, 1) <= Len(scanned)
            /\ d_groups = group_similar_images(PictureHashesOf(scanned),
                                               d_threshold)

\* the second call runs without image 1, which the first call had grouped
\* with image 2
C34_Witness ==
    /\ runs = 2
    /\ 1 \notin DOMAIN directory
    /\ 2 \in DOMAIN directory
    /\ Len(d_image_hashes) >= 1

\* C35: for a threshold >= 0 every hashed image is in exactly one group,
\* once; the group sizes add up to total_images; every readable image is
\* hashed and its group has a representative among its members.
C35_GroupsPartitionHashed ==
    (runs >= 1 /\ d_threshold >= 0) =>
        LET N == Len(d_image_hashes)
            GroupsOf(path) ==
                {g \in 1 .. Len(d_groups) : path \in SeqToSet(d_groups[g])}
        IN  /\ \A i \in 1 .. N :
                 /\ Cardinality(GroupsOf(d_image_hashes[i][1])) = 1
                 /\ \A g \in GroupsOf(d_image_hashes[i][1]) :
                      /\ Cardinality({k \in 1 .. Len(d_groups[g]) :
                             d_groups[g][k] = d_image_hashes[i][1]}) = 1
                      /\ d_representatives \cap SeqToSet(d_groups[g]) # {}
            /\ SumSeq(statistics.group_sizes, 1) = statistics.total_images
            /\ statistics.total_images = N
            /\ \A path \in DOMAIN directory :
                 directory[path].readable
                    => \E i \in 1 .. N : d_image_hashes[i][1] = path

\* two readable images in one group next to an unreadable file
C35_Witness ==
    /\ runs = 1
    /\ d_threshold >= 0
    /\ Len(d_image_hashes) = 2
    /\ Len(d_groups) = 1
    /\ Cardinality(d_representatives) = 1
    /\ \E path \in DOMAIN directory : ~directory[path].readable
\* C32: the producer has decided to grab only when a frame interval has
\* passed since it decided on the frame it emitted (enqueued or dropped)
\* before, the time of which it keeps in last_capture; the timestamps of the
\* emitted frames do not decrease with the order of emission and are times
\* since start_time.
C32_OncePerFrameInterval ==
    /\ [](capture_pc \in {"grab", "check_full", "put"}
             => current_time - last_capture >= frame_interval)
    /\ [](\A a, b \in SeqToSet(enqueued) \cup dropped :
             /\ a.id < b.id => a.ts <= b.ts
             /\ 0 <= a.ts
             /\ a.ts <= now - start_time)
    /\ [][IF capture_pc \in {"check_full", "put"} /\ capture_pc' = "loop"
          THEN last_capture' = current_time
          ELSE last_capture' = last_capture]_vars

\* two frames emitted, decided on a frame interval apart
C32_Witness ==
    /\ Len(enqueued) + Cardinality(dropped) = 2
    /\ last_capture - BootTime >= frame_interval

\* C33: once stop_event is set the capture thread leaves its loop test only
\* to terminate, so that no grab follows but the one of the pass it was in;
\* it does terminate; and none of its steps takes an item off the queue.
C33_NoNewGrabAfterCancel ==
    /\ [][/\ (stop_event /\ capture_pc = "loop" /\ capture_pc' # "loop")
                => capture_pc' = "done"
          /\ capture_pc = "done" => capture_pc' = "done"
          /\ capture_pc' # capture_pc
                => \/ frame_queue' = frame_queue
                   \/ /\ Len(frame_queue') = Len(frame_queue) + 1
                      /\ SubSeq(frame_queue', 1, Len(frame_queue)) = frame_queue]_vars
    /\ (stop_event ~> CaptureTerminated)

\* the capture thread has terminated after a cancellation that came while a
\* grab was in progress: that frame is on the queue
C33_Witness ==
    /\ stop_event
    /\ CaptureTerminated
    /\ Len(frame_queue) >= 1
    /\ frame_queue[Len(frame_queue)].ts >= 1
\* C36: once GideonCapture.stop_event is set the worker leaves its loop test
\* only to terminate, so that no cycle begins but the one whose sleep was
\* under way; a cycle under way is not ended by the flag (the thread ends
\* at the loop test only) and stop() waits for it with the client open; and
\* the worker does terminate.
C36_AtMostOneCycleAfterStop ==
    /\ [][/\ (gideon_stop_event /\ dedup_pc = "loop" /\ dedup_pc' # "loop")
                => dedup_pc' = "done"
          /\ (dedup_pc # "loop" /\ dedup_pc' # dedup_pc) => dedup_pc' # "done"
          /\ dedup_pc = "done" => dedup_pc' = "done"]_vars
    /\ []((gideon_stop_event /\ dedup_pc \in {"sleep", "deduplicate",
                                               "add_recordings", "cleanup"})
            => (main_pc = "join_dedup" /\ client_open))
    /\ (gideon_stop_event ~> DedupTerminated)

\* the flag was set during a cycle, which has gone on from the hand-off to
\* the deletion
C36_Witness ==
    /\ gideon_stop_event
    /\ dedup_pc = "cleanup"
    /\ handoff = "ok"
\* C37: a stop_capture call made while an earlier one has begun or after it
\* has returned finds stop_event set and does nothing: signal_handler, when
\* it runs during the calling thread's stop_capture, is at its test of the
\* flag with the flag set, and the call of the finally clause finds the
\* flag set.
C37_StopCaptureIdempotent ==
    /\ (/\ main_pc \in {"stop_set", "join_capture", "check_save", "drain",
                         "drain_get", "join_save", "close_sct"}
        /\ HandlerRunning)
           => (sigint_pc = "test" /\ stop_event)
    /\ main_pc = "gideon_set" => stop_event
====
